---- MODULE Spec2Model ----
(***************************************************************************)
(* Verification model of the rhythmic quantisation core of porcaro:        *)
(*   - processing/matching.py    match_by_eighth_notes and                 *)
(*                               get_notes_within_tolerance                *)
(*   - processing/subdivision.py Match, EighthNoteSubdivisions and         *)
(*                               EighthNoteTupletSubdivisions              *)
(*   - processing/grid.py        sync_eighth_note_grid_to_onsets           *)
(*   - processing/transcriber.py DrumTranscriber.map_onsets_to_eighth_notes*)
(*   - utils/bpm.py, utils/time_signature.py, processing/duration.py       *)
(*                                                                         *)
(* Times are exact rationals.  Grid points and onset peak times are whole  *)
(* ticks; the predicted slot times of a subdivision and the distances of a *)
(* Match are kept in 1/Scale ticks so that every thirty-second and triplet *)
(* position of every modelled time signature is an integer.  Durations     *)
(* (music21 quarterLength) are kept in 1/24 of a quarter note.  Floating-  *)
(* point rounding is not modelled.                                         *)
(***************************************************************************)
EXTENDS Integers, Sequences, FiniteSets, TLC

VARIABLES
    grid,               \* the eighth-note grid handed to the function under way
    note_predictions,   \* DataFrame: [columns, rows], rows keep their index label
    time_sig,           \* TimeSignature
    tolerance,          \* matching / sync tolerance in ticks
    pc,                 \* position in the function under way
    exc,                \* the exception that ended the call ("" when none)
    i,                  \* loop index (0-based, as in the source)
    matched_durations,  \* match_by_eighth_notes: output list
    matched_notes,      \* match_by_eighth_notes: output list
    stride,             \* <<>> or <<r>>: what the last completed stride computed
    collected,          \* per row: number of intervals whose onset set held it
    onset_times,        \* synchroniser: the sorted onset array (note_line)
    variant,            \* "match", "grid" (grid.py) or "transcriber"
    note_offset,        \* DrumTranscriber._note_offset: <<>> (None) or <<n>>
    synced_grid,        \* synchroniser: the grid being built
    onset_idx,          \* grid.py synchroniser: onset cursor
    diff_log,           \* transcriber synchroniser: accumulated drift
    synced_obj,         \* which array object synced_grid names: "new" or "grid"
    start_beat,         \* SongData.start_beat / pos, in half beats
    drum_start_time,    \* time of the first drum hit, in ticks
    duration,           \* SongData.duration, in ticks
    bpm_eighth_note,    \* SongData.bpm.eighth_note, in ticks
    beat_log,           \* eighth_note_beat: the calls made so far, pos -> outcome
    result,             \* what the call under way returned
    labelingsession,    \* table labelingsession: the set of session ids
    audioclip,          \* table audioclip: the set of clip rows
    directories,        \* session ids whose session directory exists
    files,              \* clip ids whose audio file exists
    uuid,               \* number of uuid4 values drawn so far
    deleted,            \* ids for which delete_session returned True
    fetched,            \* pages read by get_clips since the last other call
    cascaded,           \* ids of the clips that went with a deleted session
    in_mem_session_tracks,  \* InMemoryService: session id -> track
    id_stack,           \* InMemoryService._id_stack
    max_memory,         \* InMemoryService._max_memory, in bytes
    track_files,        \* track.npy of the session directories: id -> track
    last_set,           \* session id -> the track of the latest set_session_track
    sessions,           \* SessionStore._sessions: id -> LabelingSession
    session_data,       \* SessionStore._session_data: id -> LabelingSessionData
    uploads             \* create_session requests waiting on the file write

vars == <<grid, note_predictions, time_sig, tolerance, pc, exc, i,
          matched_durations, matched_notes, stride, collected,
          onset_times, variant, note_offset, synced_grid, onset_idx, diff_log,
          synced_obj, start_beat, drum_start_time, duration, bpm_eighth_note,
          beat_log, labelingsession, audioclip, directories, files,
          uuid, deleted, fetched, cascaded, in_mem_session_tracks, id_stack,
          max_memory, track_files, last_set, sessions, session_data, uploads,
          result>>

matchVars == <<matched_durations, matched_notes, stride, collected>>
syncVars == <<onset_times, note_offset, synced_grid, onset_idx, diff_log,
              synced_obj>>
buildVars == <<start_beat, drum_start_time, duration, bpm_eighth_note,
               beat_log>>
dbVars == <<labelingsession, audioclip, directories, files, uuid, deleted,
            fetched, cascaded>>
memVars == <<in_mem_session_tracks, id_stack, max_memory, track_files,
             last_set>>
storeVars == <<sessions, session_data, uploads>>
otherVars == <<buildVars, dbVars, memVars, storeVars, result>>

\* the parts of the state a call does not involve, before any call on them
BuildIdle ==
    /\ start_beat = 0
    /\ drum_start_time = 0
    /\ duration = 0
    /\ bpm_eighth_note = 0
    /\ beat_log = <<>>

DbIdle ==
    /\ labelingsession = {}
    /\ audioclip = {}
    /\ directories = {}
    /\ files = {}
    /\ uuid = 0
    /\ deleted = {}
    /\ fetched = <<>>
    /\ cascaded = {}

MemIdle ==
    /\ in_mem_session_tracks = <<>>
    /\ id_stack = <<>>
    /\ max_memory = 0
    /\ track_files = <<>>
    /\ last_set = <<>>

StoreIdle ==
    /\ sessions = <<>>
    /\ session_data = <<>>
    /\ uploads = {}

(***************************************************************************)
(* Bounds of the model                                                     *)
(***************************************************************************)
MaxGridLen == 5
MaxOnsets == 6
MatchMaxTime == 6
MaxTolerance == 1
MaxSyncLen == 4
MaxThirtySecond == 2
MaxSyncOnsets == 3
SyncMaxTime == 12
LongEighth == 8
MaxLongOnsets == 2
MaxSheetLen == 2
MaxBeats == 4
MaxUuid == 3
MaxMemSessions == 2
MaxTrackBytes == 2
MaxMemory == 3
MaxStack == 3
MaxStoreSessions == 2
MaxStoreClips == 1
MaxHalfBeat == 11
MaxBeatCalls == 3
MaxEighthTicks == 3
MaxDuration == 8

\* sub-tick resolution: 1/16 of an interval (note_value up to 16) and thirds
Scale == 16 * 3

(***************************************************************************)
(* Generic helpers                                                         *)
(***************************************************************************)
Abs(x) == IF x < 0 THEN -x ELSE x

SetMin(S) == CHOOSE m \in S : \A x \in S : m <= x

RECURSIVE SortedSeq(_)
SortedSeq(S) == IF S = {} THEN <<>>
                ELSE LET m == SetMin(S) IN <<m>> \o SortedSeq(S \ {m})

RECURSIVE SumSeq(_)
SumSeq(s) == IF s = <<>> THEN 0 ELSE Head(s) + SumSeq(Tail(s))

Raise(e) == [exc |-> e, value |-> <<>>]
Return(v) == [exc |-> "", value |-> <<v>>]

(***************************************************************************)
(* utils/time_signature.py, utils/bpm.py, processing/duration.py           *)
(***************************************************************************)
TimeSignature(b, n) == [beats_in_measure |-> b, note_value |-> n]

\* A BPM object is kept as its beat period 60/bpm, in 1/Scale ticks.
\* duration2 is the eighth-note duration in HALF ticks (the tuplet passes
\* (end - start) / 2): period = 60 / ((60 / duration) * (note_value / 8)).
from_eighth_note(duration2, ts) ==
    [period |-> ((Scale \div 2) * duration2 * 8) \div ts.note_value]

BPM_eighth_note(bpm) == bpm.period \div 2
BPM_eighth_note_triplet(bpm) == bpm.period \div 3
BPM_sixteenth_note(bpm) == bpm.period \div 4
BPM_dotted_sixteenth_note(bpm) == (BPM_sixteenth_note(bpm) * 3) \div 2
BPM_thirty_second_note(bpm) == bpm.period \div 8

\* music21 quarterLength, in 1/24 of a quarter note
Duration_eighth_note == 12
Duration_eighth_note_triplet == 8
Duration_sixteenth_note == 6
Duration_dotted_sixteenth_note == 9
Duration_thirty_second_note == 3

(***************************************************************************)
(* processing/subdivision.py                                               *)
(***************************************************************************)
REST == "REST"

Match(distance, durations, notes) ==
    [distance |-> distance, durations |-> durations, notes |-> notes]

\* __add__ that keeps only its own notes
Match_add_own_notes(self, other) ==
    Match(self.distance + other.distance,
          self.durations \o other.durations,
          self.notes)

\* Match.__add__
Match_add(self, other) ==
    Match(self.distance + other.distance,
          self.durations \o other.durations,
          self.notes \o other.notes)

\* Match.__lt__
Match_lt(self, other) == self.distance < other.distance

Subdivision(times, durations) == [times |-> times, durations |-> durations]

\* np.argmax in place of np.argmin
ArgMax(d) ==
    LET most == -SetMin({-d[k] : k \in 1..Len(d)})
    IN  SetMin({k \in 1..Len(d) : d[k] = most})

\* np.argmin: the first index holding the minimum (1-based here)
ArgMin(d) ==
    LET least == SetMin({d[k] : k \in 1..Len(d)})
    IN  SetMin({k \in 1..Len(d) : d[k] = least})

\* np.sum(np.abs(notes['peak_time'] - subdiv.times)), in 1/Scale ticks
Distance(notes, subdiv) ==
    SumSeq([k \in 1..Len(notes.rows) |->
                Abs(Scale * notes.rows[k].peak_time - subdiv.times[k])])

\* Subdivisions._get_closest_match; notes['hits'] raises KeyError when the
\* table has no 'hits' column.
get_closest_match(notes, possible_subdivs) ==
    LET distances == [k \in 1..Len(possible_subdivs) |->
                          Distance(notes, possible_subdivs[k])]
        closest_index == ArgMin(distances)
        closest_subdiv == possible_subdivs[closest_index]
    IN  IF "hits" \notin notes.columns
        THEN Raise("KeyError: 'hits'")
        ELSE Return(Match(distances[closest_index],
                          closest_subdiv.durations,
                          [k \in 1..Len(notes.rows) |-> notes.rows[k].hits]))

\* EighthNoteSubdivisions.__init__
EighthNoteSubdivisions(start_time, end_time, ts) ==
    [start_time |-> Scale * start_time,
     bpm |-> from_eighth_note(2 * (end_time - start_time), ts)]

thirty_second_note(self) ==
    Subdivision(<<self.start_time + BPM_dotted_sixteenth_note(self.bpm)>>,
                <<Duration_thirty_second_note>>)

sixteenth_note(self) ==
    Subdivision(<<self.start_time + BPM_sixteenth_note(self.bpm)>>,
                <<Duration_sixteenth_note>>)

two_thirty_second_notes(self) ==
    Subdivision(<<self.start_time + BPM_sixteenth_note(self.bpm),
                  self.start_time + BPM_dotted_sixteenth_note(self.bpm)>>,
                <<Duration_thirty_second_note, Duration_thirty_second_note>>)

dotted_sixteenth_note(self) ==
    Subdivision(<<self.start_time + BPM_thirty_second_note(self.bpm)>>,
                <<Duration_dotted_sixteenth_note>>)

sixteenth_and_thirty_second(self) ==
    Subdivision(<<self.start_time + BPM_thirty_second_note(self.bpm),
                  self.start_time + BPM_dotted_sixteenth_note(self.bpm)>>,
                <<Duration_sixteenth_note, Duration_thirty_second_note>>)

thirty_second_and_sixteenth(self) ==
    Subdivision(<<self.start_time + BPM_thirty_second_note(self.bpm),
                  self.start_time + BPM_sixteenth_note(self.bpm)>>,
                <<Duration_thirty_second_note, Duration_sixteenth_note>>)

three_thirty_second_notes(self) ==
    Subdivision(<<self.start_time + BPM_thirty_second_note(self.bpm),
                  self.start_time + BPM_sixteenth_note(self.bpm),
                  self.start_time + BPM_dotted_sixteenth_note(self.bpm)>>,
                <<Duration_thirty_second_note, Duration_thirty_second_note,
                  Duration_thirty_second_note>>)

\* eighth_note with the slot of its neighbour dotted_sixteenth_note
eighth_note_shifted(self) ==
    Subdivision(<<self.start_time + BPM_thirty_second_note(self.bpm)>>,
                <<Duration_eighth_note>>)

eighth_note(self) ==
    Subdivision(<<self.start_time>>, <<Duration_eighth_note>>)

dotted_sixteenth_and_thirty_second(self) ==
    Subdivision(<<self.start_time,
                  self.start_time + BPM_dotted_sixteenth_note(self.bpm)>>,
                <<Duration_dotted_sixteenth_note, Duration_thirty_second_note>>)

two_sixteenth_notes(self) ==
    Subdivision(<<self.start_time,
                  self.start_time + BPM_sixteenth_note(self.bpm)>>,
                <<Duration_sixteenth_note, Duration_sixteenth_note>>)

sixteenth_and_two_thirty_seconds(self) ==
    Subdivision(<<self.start_time,
                  self.start_time + BPM_sixteenth_note(self.bpm),
                  self.start_time + BPM_dotted_sixteenth_note(self.bpm)>>,
                <<Duration_sixteenth_note, Duration_thirty_second_note,
                  Duration_thirty_second_note>>)

thirty_second_and_dotted_sixteenth(self) ==
    Subdivision(<<self.start_time,
                  self.start_time + BPM_thirty_second_note(self.bpm)>>,
                <<Duration_thirty_second_note, Duration_dotted_sixteenth_note>>)

thirty_second_and_sixteenth_and_thirty_second(self) ==
    Subdivision(<<self.start_time,
                  self.start_time + BPM_thirty_second_note(self.bpm),
                  self.start_time + BPM_dotted_sixteenth_note(self.bpm)>>,
                <<Duration_thirty_second_note, Duration_sixteenth_note,
                  Duration_thirty_second_note>>)

two_thirty_second_notes_and_sixteenth(self) ==
    Subdivision(<<self.start_time,
                  self.start_time + BPM_thirty_second_note(self.bpm),
                  self.start_time + BPM_sixteenth_note(self.bpm)>>,
                <<Duration_thirty_second_note, Duration_thirty_second_note,
                  Duration_sixteenth_note>>)

four_thirty_second_notes(self) ==
    Subdivision(<<self.start_time,
                  self.start_time + BPM_thirty_second_note(self.bpm),
                  self.start_time + BPM_sixteenth_note(self.bpm),
                  self.start_time + BPM_dotted_sixteenth_note(self.bpm)>>,
                <<Duration_thirty_second_note, Duration_thirty_second_note,
                  Duration_thirty_second_note, Duration_thirty_second_note>>)

\* EighthNoteSubdivisions.get_possible_subdivisions: the table by note count
EighthNoteSubdivisions_get_possible_subdivisions(self) ==
    [n \in 1..4 |->
        CASE n = 1 -> <<thirty_second_note(self), sixteenth_note(self),
                        dotted_sixteenth_note(self), eighth_note(self)>>
          [] n = 2 -> <<two_thirty_second_notes(self),
                        sixteenth_and_thirty_second(self),
                        thirty_second_and_sixteenth(self),
                        dotted_sixteenth_and_thirty_second(self),
                        two_sixteenth_notes(self),
                        thirty_second_and_dotted_sixteenth(self)>>
          [] n = 3 -> <<three_thirty_second_notes(self),
                        sixteenth_and_two_thirty_seconds(self),
                        thirty_second_and_sixteenth_and_thirty_second(self),
                        two_thirty_second_notes_and_sixteenth(self)>>
          [] n = 4 -> <<four_thirty_second_notes(self)>>]

\* a DataFrame: the set of its columns and its rows; every row carries its
\* index label (0-based, kept by slicing, renumbered by ignore_index)
DataFrame(columns, rows) == [columns |-> columns, rows |-> rows]

\* np.argsort(dists)[:k] followed by np.sort: the 0-based positions of the
\* k smallest gaps, ties taken in index order (numpy sorts arrays this
\* short by insertion)
SmallestGaps(dists, k) ==
    {p \in 0..(Len(dists) - 1) :
        Cardinality({q \in 0..(Len(dists) - 1) :
            \/ dists[q + 1] < dists[p + 1]
            \/ dists[q + 1] = dists[p + 1] /\ q < p}) < k}

\* DataFrame.drop(labels): KeyError unless every label is in the index
DataFrame_drop(notes, labels) ==
    IF \E l \in labels : \A k \in 1..Len(notes.rows) : notes.rows[k].index # l
    THEN Raise("KeyError: not found in axis")
    ELSE Return(DataFrame(notes.columns,
                          SelectSeq(notes.rows, LAMBDA r : r.index \notin labels)))

\* EighthNoteSubdivisions.match_notes
EighthNoteSubdivisions_match_notes(self, notes) ==
    LET num_notes == Len(notes.rows)
        dists == [p \in 1..(num_notes - 1) |->
                     Abs(notes.rows[p + 1].peak_time - notes.rows[p].peak_time)]
        omit_indices == SmallestGaps(dists, num_notes - 4)
        dropped == DataFrame_drop(notes, omit_indices)
    IN  IF num_notes = 0
        THEN Return(Match(0, <<Duration_eighth_note>>, <<REST>>))
        ELSE IF num_notes > 4
        THEN IF dropped.exc # ""
             THEN Raise(dropped.exc)
             ELSE get_closest_match(
                      dropped.value[1],
                      EighthNoteSubdivisions_get_possible_subdivisions(self)
                          [Len(dropped.value[1].rows)])
        ELSE get_closest_match(
                 notes,
                 EighthNoteSubdivisions_get_possible_subdivisions(self)[num_notes])

\* Subdivisions.match for EighthNoteSubdivisions
EighthNoteSubdivisions_match(start_time, end_time, ts, notes) ==
    EighthNoteSubdivisions_match_notes(
        EighthNoteSubdivisions(start_time, end_time, ts), notes)

\* EighthNoteTupletSubdivisions.__init__: the span is two eighth notes
EighthNoteTupletSubdivisions(start_time, end_time, ts) ==
    [start_time |-> Scale * start_time,
     bpm |-> from_eighth_note(end_time - start_time, ts)]

rested_first(self) ==
    Subdivision(<<self.start_time + BPM_eighth_note_triplet(self.bpm),
                  self.start_time + BPM_eighth_note_triplet(self.bpm) * 2>>,
                <<Duration_eighth_note_triplet, Duration_eighth_note_triplet>>)

rested_second(self) ==
    Subdivision(<<self.start_time,
                  self.start_time + BPM_eighth_note_triplet(self.bpm) * 2>>,
                <<Duration_eighth_note_triplet, Duration_eighth_note_triplet>>)

rested_third(self) ==
    Subdivision(<<self.start_time,
                  self.start_time + BPM_eighth_note_triplet(self.bpm)>>,
                <<Duration_eighth_note_triplet, Duration_eighth_note_triplet>>)

three_triplets(self) ==
    Subdivision(<<self.start_time,
                  self.start_time + BPM_eighth_note_triplet(self.bpm),
                  self.start_time + BPM_eighth_note_triplet(self.bpm) * 2>>,
                <<Duration_eighth_note_triplet, Duration_eighth_note_triplet,
                  Duration_eighth_note_triplet>>)

\* EighthNoteTupletSubdivisions.get_possible_subdivisions: keys 2 and 3 only
EighthNoteTupletSubdivisions_get_possible_subdivisions(self) ==
    (2 :> <<rested_first(self), rested_second(self), rested_third(self)>>)
        @@ (3 :> <<three_triplets(self)>>)

\* EighthNoteTupletSubdivisions.match_notes: the value is <<>> for None
EighthNoteTupletSubdivisions_match_notes(self, notes) ==
    LET num_notes == Len(notes.rows)
        subdivs == EighthNoteTupletSubdivisions_get_possible_subdivisions(self)
    IN  IF num_notes \notin DOMAIN subdivs
        THEN [exc |-> "", value |-> <<>>]
        ELSE get_closest_match(notes, subdivs[num_notes])

\* Subdivisions.match for EighthNoteTupletSubdivisions
EighthNoteTupletSubdivisions_match(start_time, end_time, ts, notes) ==
    EighthNoteTupletSubdivisions_match_notes(
        EighthNoteTupletSubdivisions(start_time, end_time, ts), notes)

(***************************************************************************)
(* processing/matching.py                                                  *)
(***************************************************************************)
\* np.searchsorted on a sorted array: side='left' counts the elements < v,
\* side='right' counts the elements <= v
searchsorted_left(a, v) == Cardinality({k \in 1..Len(a) : a[k] < v})
searchsorted_right(a, v) == Cardinality({k \in 1..Len(a) : a[k] <= v})

get_notes_within_tolerance(predictions, start_time, end_time, tol) ==
    LET times == [k \in 1..Len(predictions.rows) |-> predictions.rows[k].peak_time]
        start_idx == searchsorted_left(times, start_time - tol)
        end_idx == searchsorted_right(times, end_time + tol)
    IN  DataFrame(predictions.columns,
                  SubSeq(predictions.rows, start_idx + 1, end_idx))

\* pd.concat([a, b], axis=0, ignore_index=True)
concat_ignore_index(a, b) ==
    LET rows == a.rows \o b.rows
    IN  DataFrame(a.columns \cup b.columns,
                  [k \in 1..Len(rows) |-> [rows[k] EXCEPT !.index = k - 1]])

\* best_of with max in place of min
best_of_max(first_match, second_match, tuplet_match) ==
    IF tuplet_match # <<>>
    THEN IF Match_lt(Match_add(first_match, second_match), tuplet_match[1])
         THEN tuplet_match[1]
         ELSE Match_add(first_match, second_match)
    ELSE Match_add(first_match, second_match)

\* lines 94-97: min(first + second, tuplet) keeps its first argument unless
\* the second is strictly smaller
best_of(first_match, second_match, tuplet_match) ==
    IF tuplet_match # <<>>
    THEN IF Match_lt(tuplet_match[1], Match_add(first_match, second_match))
         THEN tuplet_match[1]
         ELSE Match_add(first_match, second_match)
    ELSE Match_add(first_match, second_match)

RequiredColumns == {"peak_time", "hit_type"}

\* line 64: the column assertion
MatchEnter ==
    /\ variant = "match"
    /\ pc = "call"
    /\ IF RequiredColumns \subseteq note_predictions.columns
       THEN pc' = "loop" /\ exc' = ""
       ELSE pc' = "raised" /\ exc' = "AssertionError"
    /\ UNCHANGED <<grid, note_predictions, time_sig, tolerance, i, matchVars,
                   variant, syncVars, otherVars>>

\* which interval onset sets of this stride hold row k (index label k - 1)
Holds(notes, k) == \E j \in 1..Len(notes.rows) : notes.rows[j].index = k - 1

\* one pass of the loop body, lines 69-99, for i = 0, 2, 4, ...
MatchStride ==
    /\ variant = "match"
    /\ pc = "loop"
    /\ i < Len(grid) - 1
    /\ IF i + 2 > Len(grid) - 1
       THEN /\ pc' = "raised"
            /\ exc' = "IndexError"
            /\ UNCHANGED <<i, matchVars>>
       ELSE LET start_time == grid[i + 1]
                middle_time == grid[i + 2]
                end_time == grid[i + 3]
            IN  \E first_matching_notes \in {get_notes_within_tolerance(
                    note_predictions, start_time, middle_time, tolerance)},
                   second_matching_notes \in {get_notes_within_tolerance(
                    note_predictions, middle_time, end_time, tolerance)} :
                \E first_match \in {EighthNoteSubdivisions_match(
                    start_time, middle_time, time_sig, first_matching_notes)},
                   second_match \in {EighthNoteSubdivisions_match(
                    middle_time, end_time, time_sig, second_matching_notes)},
                   tuplet_match \in {EighthNoteTupletSubdivisions_match(
                    start_time, end_time, time_sig,
                    concat_ignore_index(first_matching_notes,
                                        second_matching_notes))} :
                LET failure == IF first_match.exc # "" THEN first_match.exc
                               ELSE IF second_match.exc # ""
                               THEN second_match.exc
                               ELSE tuplet_match.exc
                IN  /\ collected' =
                           [k \in 1..Len(note_predictions.rows) |->
                               collected[k]
                               + (IF Holds(first_matching_notes, k)
                                  THEN 1 ELSE 0)
                               + (IF Holds(second_matching_notes, k)
                                  THEN 1 ELSE 0)]
                    /\ IF failure # ""
                       THEN /\ pc' = "raised"
                            /\ exc' = failure
                            /\ UNCHANGED <<i, matched_durations, matched_notes,
                                           stride>>
                       ELSE \E best_match \in {best_of(first_match.value[1],
                                                       second_match.value[1],
                                                       tuplet_match.value)} :
                            /\ pc' = "loop"
                            /\ exc' = ""
                            /\ i' = i + 2
                            /\ matched_durations' =
                                   matched_durations \o best_match.durations
                            /\ matched_notes' =
                                   matched_notes \o best_match.notes
                            /\ stride' =
                                   << [start_time |-> start_time,
                                       middle_time |-> middle_time,
                                       end_time |-> end_time,
                                       first_matching_notes |->
                                           first_matching_notes,
                                       second_matching_notes |->
                                           second_matching_notes,
                                       first_match |-> first_match.value[1],
                                       second_match |-> second_match.value[1],
                                       tuplet_match |-> tuplet_match.value,
                                       best_match |-> best_match] >>
    /\ UNCHANGED <<grid, note_predictions, time_sig, tolerance, variant,
                   syncVars, otherVars>>

\* line 101: the loop is over, the two lists are returned
MatchReturn ==
    /\ variant = "match"
    /\ pc = "loop"
    /\ ~(i < Len(grid) - 1)
    /\ pc' = "done"
    /\ UNCHANGED <<grid, note_predictions, time_sig, tolerance, exc, i,
                   matchVars, variant, syncVars, otherVars>>

(***************************************************************************)
(* The matcher's inputs                                                    *)
(***************************************************************************)
TimeSigs == {TimeSignature(4, 4), TimeSignature(6, 8)}

ColumnSets == {{"peak_time", "hit_type"},
               {"peak_time", "hit_type", "hits"},
               {"peak_time", "hits"}}

HitNames == <<"n0", "n1", "n2", "n3", "n4", "n5", "n6", "n7", "n8", "n9">>

\* the rows of a table whose peak times are the set S, in ascending order
RowsOf(S) ==
    LET t == SortedSeq(S)
    IN  [k \in 1..Len(t) |->
            [index |-> k - 1, peak_time |-> t[k], hits |-> HitNames[k]]]

InitMatch ==
    /\ variant = "match"
    /\ \/ /\ \E G \in SUBSET (0..MatchMaxTime) :
                /\ Cardinality(G) \in 2..MaxGridLen
                /\ grid = SortedSeq(G)
          /\ \E S \in SUBSET (0..MatchMaxTime), cols \in ColumnSets :
                /\ Cardinality(S) <= MaxOnsets
                /\ note_predictions = DataFrame(cols, RowsOf(S))
                /\ collected = [k \in 1..Cardinality(S) |-> 0]
       \/ \* one stride of long eighth notes, where an onset can fall half-way
          \* between two thirty-second slots
          /\ grid = <<0, LongEighth, 2 * LongEighth>>
          /\ \E S \in SUBSET (0..(2 * LongEighth)), cols \in ColumnSets :
                /\ Cardinality(S) <= MaxLongOnsets
                /\ note_predictions = DataFrame(cols, RowsOf(S))
                /\ collected = [k \in 1..Cardinality(S) |-> 0]
    /\ time_sig \in TimeSigs
    /\ tolerance \in 0..MaxTolerance
    /\ pc = "call"
    /\ exc = ""
    /\ i = 0
    /\ matched_durations = <<>>
    /\ matched_notes = <<>>
    /\ stride = <<>>
    /\ onset_times = <<>>
    /\ note_offset = <<>>
    /\ synced_grid = <<>>
    /\ onset_idx = 0
    /\ diff_log = 0
    /\ synced_obj = "none"
    /\ result = <<>>
    /\ BuildIdle
    /\ DbIdle
    /\ MemIdle
    /\ StoreIdle

(***************************************************************************)
(* processing/sheet.py: construct_sheet                                    *)
(***************************************************************************)
\* the labels of LABEL_PITCH_MAP that the model draws from
LABEL_PITCH_MAP == {"REST", "KD", "SD"}

\* lines 50-54: the note built for one (duration, label) pair
get_note_from_label(label, dur) ==
    IF label \notin LABEL_PITCH_MAP
    THEN Raise("KeyError: label")
    ELSE Return([label |-> label, duration |-> dur, stemDirection |-> "up"])

\* lines 78-80: zip(..., strict=True) hands out the pairs of the common
\* prefix and then raises ValueError when one list is longer
RECURSIVE append_notes(_, _, _)
append_notes(stream, durations, notes) ==
    IF durations = <<>> /\ notes = <<>>
    THEN Return(stream)
    ELSE IF durations = <<>> \/ notes = <<>>
    THEN Raise("ValueError")
    ELSE LET m21_note == get_note_from_label(Head(notes), Head(durations))
         IN  IF m21_note.exc # ""
             THEN Raise(m21_note.exc)
             ELSE append_notes(Append(stream, m21_note.value[1]),
                               Tail(durations), Tail(notes))

\* lines 74-82
ConstructSheet ==
    /\ variant = "sheet"
    /\ pc = "call"
    /\ \E stream \in {append_notes(<<[meter |-> time_sig]>>,
                                    matched_durations, matched_notes)} :
          IF stream.exc # ""
          THEN /\ pc' = "raised"
               /\ exc' = stream.exc
               /\ result' = <<>>
          ELSE /\ pc' = "done"
               /\ exc' = ""
               /\ result' = stream.value
    /\ UNCHANGED <<grid, note_predictions, time_sig, tolerance, i, matchVars,
                   variant, syncVars, buildVars, dbVars, memVars, storeVars>>

\* the lists handed to construct_sheet
SheetLabels == {"REST", "KD", "HHC"}

SeqsUpTo(S, n) == UNION {[1..k -> S] : k \in 0..n}

InitSheet ==
    /\ variant = "sheet"
    /\ matched_durations
           \in SeqsUpTo({Duration_eighth_note, Duration_sixteenth_note},
                        MaxSheetLen)
    /\ matched_notes \in SeqsUpTo(SheetLabels, MaxSheetLen)
    /\ time_sig \in TimeSigs
    /\ grid = <<>>
    /\ note_predictions = DataFrame({}, <<>>)
    /\ collected = <<>>
    /\ tolerance = 0
    /\ pc = "call"
    /\ exc = ""
    /\ i = 0
    /\ stride = <<>>
    /\ onset_times = <<>>
    /\ note_offset = <<>>
    /\ synced_grid = <<>>
    /\ onset_idx = 0
    /\ diff_log = 0
    /\ synced_obj = "none"
    /\ result = <<>>
    /\ BuildIdle
    /\ DbIdle
    /\ MemIdle
    /\ StoreIdle

NextMatch == MatchEnter \/ MatchStride \/ MatchReturn \/ ConstructSheet

SpecMatch == (InitMatch \/ InitSheet) /\ [][NextMatch]_vars

(***************************************************************************)
(* processing/grid.py: sync_eighth_note_grid_to_onsets                     *)
(*                                                                         *)
(* The raw grid is evenly spaced by one eighth note; tolerance holds the   *)
(* thirty-second note of the song tempo, a quarter of the grid step.       *)
(***************************************************************************)
\* lines 99-100: the first cursor position >= idx that is past the array or
\* at an onset >= limit (0-based cursor)
advance_onset_idx(onsets, idx, limit) ==
    CHOOSE j \in idx..Len(onsets) :
        /\ j = Len(onsets) \/ onsets[j + 1] >= limit
        /\ \A k \in idx..(j - 1) : onsets[k + 1] < limit

\* within_tolerance without the distance test
within_bounds_only(onsets, idx, grid_time, tol) == idx < Len(onsets)

\* lines 102-105
within_tolerance(onsets, idx, grid_time, tol) ==
    /\ idx < Len(onsets)
    /\ Abs(onsets[idx + 1] - grid_time) <= tol

\* set_point counting the grid points from 1
set_point_from_one(synced, idx, value) ==
    IF idx + 2 <= Len(synced) THEN [synced EXCEPT ![idx + 2] = value]
    ELSE synced

\* line 106: synced_grid[i] = value (0-based i)
set_point(synced, idx, value) == [synced EXCEPT ![idx + 1] = value]

\* np.copy handing back its argument instead of a new array
np_same_array(a) == [obj |-> "grid", values |-> a]

\* line 92: np.copy(grid) is a new array object holding the values of grid
np_copy(a) == [obj |-> "new", values |-> a]

\* lines 92-95
GridSyncEnter ==
    /\ variant = "grid"
    /\ pc = "call"
    /\ synced_grid' = np_copy(grid).values
    /\ synced_obj' = np_copy(grid).obj
    /\ onset_idx' = 0
    /\ i' = 0
    /\ pc' = "loop"
    /\ UNCHANGED <<grid, note_predictions, time_sig, tolerance, exc, matchVars,
                   onset_times, variant, note_offset, diff_log, otherVars>>

\* lines 97-106: one grid point
GridSyncStep ==
    /\ variant = "grid"
    /\ pc = "loop"
    /\ i < Len(grid)
    /\ LET grid_time == grid[i + 1]
           idx == advance_onset_idx(onset_times, onset_idx,
                                    grid_time - tolerance)
       IN  /\ onset_idx' = idx
           /\ synced_grid' =
                  IF within_tolerance(onset_times, idx, grid_time, tolerance)
                  THEN set_point(synced_grid, i, onset_times[idx + 1])
                  ELSE synced_grid
    \* a store through synced_grid lands in the array object it names
    /\ grid' = IF synced_obj = "grid" THEN synced_grid' ELSE grid
    /\ i' = i + 1
    /\ UNCHANGED <<note_predictions, time_sig, tolerance, pc, exc,
                   matchVars, onset_times, variant, note_offset, diff_log,
                   synced_obj, otherVars>>

\* line 108
GridSyncReturn ==
    /\ variant = "grid"
    /\ pc = "loop"
    /\ i = Len(grid)
    /\ pc' = "done"
    /\ UNCHANGED <<grid, note_predictions, time_sig, tolerance, exc, i,
                   matchVars, syncVars, variant, otherVars>>

(***************************************************************************)
(* processing/transcriber.py: DrumTranscriber.map_onsets_to_eighth_notes   *)
(***************************************************************************)
\* DrumTranscriber.offset: bool(self._note_offset)
DrumTranscriber_offset == note_offset # <<>> /\ note_offset[1] # 0

\* DrumTranscriber.__init__: self.beats_in_measure
DrumTranscriber_beats_in_measure == time_sig.beats_in_measure * 2

\* np.argmin(np.abs(note_line - target)), 1-based
closest_onset(note_line, target) ==
    ArgMin([k \in 1..Len(note_line) |-> Abs(note_line[k] - target)])

\* lines 168-169
TranscriberSyncEnter ==
    /\ variant = "transcriber"
    /\ pc = "call"
    /\ synced_grid' = <<grid[1]>>
    /\ synced_obj' = "new"
    /\ diff_log' = 0
    /\ i' = 1
    /\ pc' = "loop"
    /\ UNCHANGED <<grid, note_predictions, time_sig, tolerance, exc, matchVars,
                   onset_times, variant, note_offset, onset_idx, otherVars>>

\* lines 178-188: one grid point after the first
TranscriberSyncStep ==
    /\ variant = "transcriber"
    /\ pc = "loop"
    /\ i < Len(grid)
    /\ LET note == grid[i + 1]
           pos == closest_onset(onset_times, note + diff_log)
           diff == onset_times[pos] - (note + diff_log)
       IN  IF Abs(diff) > tolerance
           THEN /\ synced_grid' =
                       Append(synced_grid,
                              synced_grid[Len(synced_grid)] + 4 * tolerance)
                /\ diff_log' = diff_log
           ELSE /\ diff_log' = diff_log + diff
                /\ synced_grid' = Append(synced_grid, note + diff_log + diff)
    /\ i' = i + 1
    /\ UNCHANGED <<grid, note_predictions, time_sig, tolerance, pc, exc,
                   matchVars, onset_times, variant, note_offset, onset_idx,
                   synced_obj, otherVars>>

\* lines 190-195: n insertions at the front, each one eighth note earlier
RECURSIVE prepend_measure(_, _, _)
prepend_measure(synced, n, eighth) ==
    IF n = 0 THEN synced
    ELSE prepend_measure(<<synced[1] - eighth>> \o synced, n - 1, eighth)

\* lines 189-196
TranscriberSyncReturn ==
    /\ variant = "transcriber"
    /\ pc = "loop"
    /\ i = Len(grid)
    /\ synced_grid' =
           IF DrumTranscriber_offset
           THEN prepend_measure(synced_grid, DrumTranscriber_beats_in_measure,
                                4 * tolerance)
           ELSE synced_grid
    /\ pc' = "done"
    /\ UNCHANGED <<grid, note_predictions, time_sig, tolerance, exc, i,
                   matchVars, onset_times, variant, note_offset, onset_idx,
                   diff_log, synced_obj, otherVars>>

(***************************************************************************)
(* The synchroniser's inputs                                               *)
(***************************************************************************)
\* np.arange(start, ..., step) with n points
arange(start, n, step) == [k \in 1..n |-> start + (k - 1) * step]

InitSync ==
    /\ variant \in {"grid", "transcriber"}
    /\ tolerance \in 1..MaxThirtySecond
    /\ \E S \in SUBSET (0..SyncMaxTime) :
          /\ Cardinality(S) <= MaxSyncOnsets
          /\ onset_times = SortedSeq(S)
    /\ IF variant = "grid"
       THEN /\ \E g0 \in 0..SyncMaxTime, n \in 1..MaxSyncLen :
                  grid = arange(g0, n, 4 * tolerance)
            /\ note_offset = <<>>
            /\ time_sig = TimeSignature(4, 4)
       ELSE \* get_eighth_note_time_grid(n): the grid starts at onset n; the
            \* offset search runs with _note_offset unset, __init__ with n
            /\ onset_times # <<>>
            /\ \E a \in 1..Len(onset_times), n \in 1..MaxSyncLen :
                  /\ grid = arange(onset_times[a], n, 4 * tolerance)
                  /\ note_offset \in {<<>>, <<a - 1>>}
            /\ time_sig \in TimeSigs
    /\ pc = "call"
    /\ exc = ""
    /\ i = 0
    /\ synced_grid = <<>>
    /\ onset_idx = 0
    /\ diff_log = 0
    /\ note_predictions = DataFrame({}, <<>>)
    /\ matched_durations = <<>>
    /\ matched_notes = <<>>
    /\ stride = <<>>
    /\ collected = <<>>
    /\ synced_obj = "none"
    /\ result = <<>>
    /\ BuildIdle
    /\ DbIdle
    /\ MemIdle
    /\ StoreIdle

NextSync ==
    \/ GridSyncEnter \/ GridSyncStep \/ GridSyncReturn
    \/ TranscriberSyncEnter \/ TranscriberSyncStep \/ TranscriberSyncReturn

SpecSync == InitSync /\ [][NextSync]_vars

(***************************************************************************)
(* The grid-matching core: the synchronisers and the matcher together      *)
(***************************************************************************)
InitCore == InitSync \/ InitMatch

NextCore ==
    \/ GridSyncEnter \/ GridSyncStep \/ GridSyncReturn
    \/ TranscriberSyncEnter \/ TranscriberSyncStep \/ TranscriberSyncReturn
    \/ MatchEnter \/ MatchStride \/ MatchReturn

SpecCore == InitCore /\ [][NextCore]_vars

(***************************************************************************)
(* utils/time_signature.py: TimeSignature.eighth_note_beat                 *)
(* processing/grid.py: get_eighth_note_time_grid                           *)
(*                                                                         *)
(* A position in the measure is kept in half beats (pos = start_beat / 2), *)
(* an eighth-note position in 1/BeatScale eighth notes, and the times of   *)
(* the built grid in 1/BeatScale ticks.                                    *)
(***************************************************************************)
BeatScale == 2 * 2 * 2

\* Python's a & b on integers; a is non-negative, and 0 & b is 0 for any b
RECURSIVE BitAnd(_, _)
BitAnd(a, b) ==
    IF a = 0 \/ b = 0 THEN 0
    ELSE (a % 2) * (b % 2) + 2 * BitAnd(a \div 2, b \div 2)

\* eighth_note_beat without the "- 1" of line 35
eighth_note_beat_from_zero(self, pos2) ==
    IF ~(pos2 >= 2) \/ BitAnd(self.note_value, self.note_value - 1) # 0
    THEN Raise("AssertionError")
    ELSE IF self.note_value = 0
    THEN Raise("ZeroDivisionError")
    ELSE LET eighths_per_beat == (8 * BeatScale) \div self.note_value
             eighth_note_pos == (pos2 * eighths_per_beat) \div 2 + BeatScale
         IN  IF ~(eighth_note_pos <= self.beats_in_measure * eighths_per_beat)
             THEN Raise("AssertionError")
             ELSE Return(eighth_note_pos)

\* lines 27-42; pos2 is the position in half beats
TimeSignature_eighth_note_beat(self, pos2) ==
    IF ~(pos2 >= 2)
    THEN Raise("AssertionError")
    ELSE IF BitAnd(self.note_value, self.note_value - 1) # 0
    THEN Raise("AssertionError")
    ELSE IF self.note_value = 0
    THEN Raise("ZeroDivisionError")
    ELSE LET eighths_per_beat == (8 * BeatScale) \div self.note_value
             eighth_note_pos == ((pos2 - 2) * eighths_per_beat) \div 2
                                    + BeatScale
             total_eighths == self.beats_in_measure * eighths_per_beat
         IN  IF ~(eighth_note_pos <= total_eighths)
             THEN Raise("AssertionError")
             ELSE Return(eighth_note_pos)

\* a call of eighth_note_beat on the time signature at hand
EighthNoteBeat ==
    /\ variant = "beat"
    /\ Cardinality(DOMAIN beat_log) < MaxBeatCalls
    /\ \E pos2 \in (0..MaxHalfBeat) \ DOMAIN beat_log :
          /\ result' = TimeSignature_eighth_note_beat(time_sig, pos2)
          /\ beat_log' = beat_log @@ (pos2 :> result')
    /\ UNCHANGED <<grid, note_predictions, time_sig, tolerance, pc, exc, i,
                   matchVars, syncVars, variant, start_beat, drum_start_time,
                   duration, bpm_eighth_note, dbVars, memVars, storeVars>>

\* np.arange that takes in its stop value
np_arange_closed(start, stop, step) ==
    arange(start, IF stop < start THEN 0 ELSE (stop - start) \div step + 1, step)

\* np.arange(start, stop, step): ceil((stop - start) / step) points
np_arange(start, stop, step) ==
    arange(start,
           IF stop <= start THEN 0 ELSE (stop - start + step - 1) \div step,
           step)

\* measure_start that is never negative
measure_start_clamped(start_time, offset) ==
    IF start_time - offset < 0 THEN 0 ELSE start_time - offset

\* line 38
measure_start_of(start_time, offset) == start_time - offset

\* grid.py lines 34-43
GetEighthNoteTimeGrid ==
    /\ variant = "build"
    /\ pc = "call"
    /\ \E eighth_note_start_beat \in
              {TimeSignature_eighth_note_beat(time_sig, start_beat)} :
          IF eighth_note_start_beat.exc # ""
          THEN /\ pc' = "raised"
               /\ exc' = eighth_note_start_beat.exc
               /\ result' = <<>>
          ELSE LET measure_start_offset ==
                       (eighth_note_start_beat.value[1] - BeatScale)
                           * bpm_eighth_note
                   measure_start ==
                       measure_start_of(BeatScale * drum_start_time,
                                        measure_start_offset)
               IN  IF ~(measure_start >= 0)
                   THEN /\ pc' = "raised"
                        /\ exc' = "AssertionError"
                        /\ result' = <<>>
                   ELSE /\ pc' = "done"
                        /\ exc' = ""
                        /\ result' = <<np_arange(measure_start,
                                                 BeatScale * duration,
                                                 BeatScale * bpm_eighth_note)>>
    /\ UNCHANGED <<grid, note_predictions, time_sig, tolerance, i, matchVars,
                   syncVars, variant, buildVars, dbVars, memVars, storeVars>>

(***************************************************************************)
(* The grid builder's inputs                                               *)
(***************************************************************************)
NoteValues == {1, 2, 3, 4, 6, 8, 16}

InitBuild ==
    /\ variant \in {"beat", "build"}
    /\ \E b \in 1..MaxBeats, n \in NoteValues : time_sig = TimeSignature(b, n)
    /\ IF variant = "beat"
       THEN /\ start_beat = 0
            /\ drum_start_time = 0
            /\ duration = 0
            /\ bpm_eighth_note = 0
       ELSE \* the first drum hit lies inside the track
            /\ start_beat \in 0..MaxHalfBeat
            /\ bpm_eighth_note \in 1..MaxEighthTicks
            /\ duration \in 1..MaxDuration
            /\ drum_start_time \in 0..(duration - 1)
    /\ beat_log = <<>>
    /\ result = <<>>
    /\ pc = "call"
    /\ exc = ""
    /\ i = 0
    /\ grid = <<>>
    /\ note_predictions = DataFrame({}, <<>>)
    /\ tolerance = 0
    /\ matched_durations = <<>>
    /\ matched_notes = <<>>
    /\ stride = <<>>
    /\ collected = <<>>
    /\ onset_times = <<>>
    /\ note_offset = <<>>
    /\ synced_grid = <<>>
    /\ onset_idx = 0
    /\ diff_log = 0
    /\ synced_obj = "none"
    /\ DbIdle
    /\ MemIdle
    /\ StoreIdle

NextBuild == EighthNoteBeat \/ GetEighthNoteTimeGrid

SpecBuild == InitBuild /\ [][NextBuild]_vars

(***************************************************************************)
(* api/services/database_service.py: DatabaseSessionService                *)
(* api/database/models.py: LabelingSession, AudioClip                      *)
(*                                                                         *)
(* A uuid4 is the next value of the counter uuid; id 0 stands for an id    *)
(* that was never handed out.  None is <<>> and a value v is <<v>>.        *)
(***************************************************************************)
coreVars == <<grid, note_predictions, time_sig, tolerance, pc, exc, i,
              matchVars, syncVars, variant, buildVars, memVars, storeVars>>

None == <<>>


\* the arguments the callers pass: page sizes, pages (one lies past the last
\* clip), label lists and the readings of datetime.now(UTC)
PageSizes == {1, 2}
Pages == 1..MaxUuid
LabelLists == {<<>>, <<"KD">>}
Clock == {1}

\* models.py lines 86-129: a new AudioClip row; user_label and labeled_at
\* default to None
AudioClip(id, session_id) ==
    [id |-> id, session_id |-> session_id, user_label |-> None,
     labeled_at |-> None]

\* select(LabelingSession).where(LabelingSession.id == session_id).first()
select_session(session_id) ==
    IF session_id \in labelingsession THEN <<session_id>> ELSE None

\* select(AudioClip).where(session_id == ..., id == ...).first()
select_clip(session_id, clip_id) ==
    IF \E c \in audioclip : c.session_id = session_id /\ c.id = clip_id
    THEN <<CHOOSE c \in audioclip :
               c.session_id = session_id /\ c.id = clip_id>>
    ELSE None

\* select(AudioClip).where(AudioClip.session_id == session_id): the ids
clips_of(session_id) == {c.id : c \in {x \in audioclip : x.session_id = session_id}}

\* the ids the callers pass: those of the sessions and clips there are or
\* were, and the unknown id
SessionIds == labelingsession \cup deleted \cup {0}
ClipIds == {c.id : c \in audioclip} \cup cascaded \cup {0}

\* a finished call: what it returned, or the exception it raised
Call(op, args, value) == [op |-> op, params |-> args, value |-> value, exc |-> ""]

Raised(op, args, e) == [op |-> op, params |-> args, value |-> None, exc |-> e]

\* lines 41-55
CreateSession ==
    /\ variant = "db"
    /\ uuid < MaxUuid
    /\ uuid' = uuid + 1
    /\ labelingsession' = labelingsession \cup {uuid'}
    /\ directories' = directories \cup {uuid'}
    /\ result' = Call("create_session", <<>>, <<uuid'>>)
    /\ fetched' = <<>>
    /\ UNCHANGED <<coreVars, audioclip, files, deleted, cascaded>>

\* lines 57-62
GetSession ==
    /\ variant = "db"
    /\ \E session_id \in SessionIds :
          result' = Call("get_session", <<session_id>>,
                         select_session(session_id))
    /\ fetched' = <<>>
    /\ UNCHANGED <<coreVars, labelingsession, audioclip, directories, files,
                   uuid, deleted, cascaded>>

\* db_session.delete that leaves the row in place
keep_session(table, session_id) == table

\* line 171: db_session.delete(labeling_session)
delete_session_row(table, session_id) == table \ {session_id}

\* a relationship without cascade_delete
keep_clips(table, session_id) == table

\* models.py lines 164-166: the clips of a deleted session are deleted
cascade_delete(table, session_id) == {c \in table : c.session_id # session_id}

\* lines 155-175; the clip files go with the session directory (rmtree)
DeleteSession ==
    /\ variant = "db"
    /\ \E session_id \in SessionIds :
          IF select_session(session_id) = None
          THEN /\ result' = Call("delete_session", <<session_id>>, <<FALSE>>)
               /\ fetched' = <<>>
               /\ UNCHANGED <<labelingsession, audioclip, directories, files,
                              uuid, deleted, cascaded>>
          ELSE /\ directories' = directories \ {session_id}
               /\ files' = files \ clips_of(session_id)
               /\ labelingsession' =
                      delete_session_row(labelingsession, session_id)
               /\ audioclip' = cascade_delete(audioclip, session_id)
               /\ deleted' = deleted \cup {session_id}
               /\ cascaded' = cascaded \cup clips_of(session_id)
               /\ fetched' = <<>>
               /\ result' = Call("delete_session", <<session_id>>, <<TRUE>>)
               /\ UNCHANGED uuid
    /\ UNCHANGED coreVars

\* an except branch that leaves the written files where they are
keep_created_files(on_disk, created_files) == on_disk

\* lines 210-213: file_path.unlink() for every file of created_files
cleanup(on_disk, created_files) == on_disk \ created_files

\* lines 178-225: n rows, of which row number bad (0: none) cannot be
\* converted.  Every row before it gets a clip with a fresh id, a file and a
\* pending INSERT; the commit fails on the foreign key when there are rows
\* and the session does not exist.  On any exception the pending rows are
\* rolled back, the files written so far are removed and the error is
\* raised again.
SaveClipsFromDataframe ==
    /\ variant = "db"
    /\ \E session_id \in SessionIds, n \in 0..MaxUuid, bad \in 0..MaxUuid :
          /\ bad <= n
          /\ uuid + (IF bad = 0 THEN n ELSE bad - 1) <= MaxUuid
          /\ LET good == IF bad = 0 THEN n ELSE bad - 1
                 created_files == (uuid + 1)..(uuid + good)
                 written == files \cup created_files
             IN  /\ uuid' = uuid + good
                 /\ directories' = IF good > 0
                                   THEN directories \cup {session_id}
                                   ELSE directories
                 /\ IF bad # 0
                    THEN /\ result' = Raised("save_clips_from_dataframe",
                                             <<session_id, n, bad>>,
                                             "KeyError")
                         /\ files' = cleanup(written, created_files)
                         /\ UNCHANGED audioclip
                    ELSE IF good > 0 /\ select_session(session_id) = None
                    THEN /\ result' = Raised("save_clips_from_dataframe",
                                             <<session_id, n, bad>>,
                                             "IntegrityError")
                         /\ files' = cleanup(written, created_files)
                         /\ UNCHANGED audioclip
                    ELSE /\ audioclip' = audioclip \cup
                               {AudioClip(id, session_id) : id \in created_files}
                         /\ files' = written
                         /\ result' = Call("save_clips_from_dataframe",
                                           <<session_id, n, bad>>, <<n>>)
    /\ fetched' = <<>>
    /\ UNCHANGED <<coreVars, labelingsession, deleted, cascaded>>

\* lines 227-239: the clips come with their own fresh ids and no file is
\* written
SaveClips ==
    /\ variant = "db"
    /\ \E session_id \in SessionIds, n \in 0..MaxUuid :
          /\ uuid + n <= MaxUuid
          /\ uuid' = uuid + n
          /\ IF n > 0 /\ select_session(session_id) = None
             THEN /\ result' = Raised("save_clips", <<session_id, n>>,
                                      "IntegrityError")
                  /\ UNCHANGED audioclip
             ELSE /\ audioclip' = audioclip \cup
                        {AudioClip(id, session_id) : id \in (uuid + 1)..(uuid + n)}
                  /\ result' = Call("save_clips", <<session_id, n>>, <<n>>)
    /\ fetched' = <<>>
    /\ UNCHANGED <<coreVars, labelingsession, directories, files, deleted,
                   cascaded>>

\* the orders in which a SELECT without ORDER BY may hand out the rows S
RowOrders(S) ==
    {o \in [1..Cardinality(S) -> S] :
        \A a, b \in 1..Cardinality(S) : a # b => o[a] # o[b]}

\* .offset(k).limit(n) on the rows in the order o
offset_limit(o, k, n) ==
    SubSeq(o, k + 1, IF k + n < Len(o) THEN k + n ELSE Len(o))

\* lines 241-260: the count and the page are two SELECTs, neither ordered.
\* fetched keeps the pages 1, 2, ... that a caller reads one after the other
\* for one session and page size.
GetClips ==
    /\ variant = "db"
    /\ \E session_id \in SessionIds, page \in Pages,
          page_size \in PageSizes :
          \E o \in RowOrders(clips_of(session_id)) :
             LET total == Cardinality(clips_of(session_id))
                 clips == offset_limit(o, (page - 1) * page_size, page_size)
                 same == /\ fetched # <<>>
                         /\ fetched.session_id = session_id
                         /\ fetched.page_size = page_size
                         /\ page = Len(fetched.pages) + 1
             IN  /\ result' = Call("get_clips", <<session_id, page, page_size>>,
                                   <<clips, total>>)
                 /\ fetched' =
                        IF same
                        THEN [fetched EXCEPT
                                  !.pages = Append(@, <<clips, total>>)]
                        ELSE IF page = 1
                        THEN [session_id |-> session_id,
                              page_size |-> page_size,
                              pages |-> << <<clips, total>> >>]
                        ELSE <<>>
    /\ UNCHANGED <<coreVars, labelingsession, audioclip, directories, files,
                   uuid, deleted, cascaded>>

\* lines 262-270
GetClip ==
    /\ variant = "db"
    /\ \E session_id \in SessionIds, clip_id \in ClipIds :
          result' = Call("get_clip", <<session_id, clip_id>>,
                         select_clip(session_id, clip_id))
    /\ fetched' = <<>>
    /\ UNCHANGED <<coreVars, labelingsession, audioclip, directories, files,
                   uuid, deleted, cascaded>>

\* lines 272-299
DeleteClip ==
    /\ variant = "db"
    /\ \E session_id \in SessionIds, clip_id \in ClipIds :
          IF select_clip(session_id, clip_id) = None
          THEN /\ result' = Call("delete_clip", <<session_id, clip_id>>,
                                 <<FALSE>>)
               /\ fetched' = <<>>
               /\ UNCHANGED <<labelingsession, audioclip, directories, files,
                              uuid, deleted, cascaded>>
          ELSE /\ files' = files \ {clip_id}
               /\ audioclip' = audioclip \ {select_clip(session_id, clip_id)[1]}
               /\ fetched' = <<>>
               /\ result' = Call("delete_clip", <<session_id, clip_id>>,
                                 <<TRUE>>)
               /\ UNCHANGED <<labelingsession, directories, uuid, deleted,
                              cascaded>>
    /\ UNCHANGED coreVars

\* lines 312-317: the rows with user_label IS NOT NULL, counted
count_labeled_clips(session_id) ==
    Cardinality({c \in audioclip :
                    c.session_id = session_id /\ c.user_label # None})

\* lines 367-377: the rows whose user_label is neither None nor empty
get_labeled_clips(session_id) ==
    {c \in audioclip :
        /\ c.session_id = session_id
        /\ c.user_label # None
        /\ Len(c.user_label[1]) > 0}

\* lines 309-318
CountLabeledClips ==
    /\ variant = "db"
    /\ \E session_id \in SessionIds :
          result' = Call("count_labeled_clips", <<session_id>>,
                         <<count_labeled_clips(session_id)>>)
    /\ fetched' = <<>>
    /\ UNCHANGED <<coreVars, labelingsession, audioclip, directories, files,
                   uuid, deleted, cascaded>>

\* lines 364-377: the list comes in the order of the unordered SELECT
GetLabeledClips ==
    /\ variant = "db"
    /\ \E session_id \in SessionIds :
          \E o \in RowOrders({c.id : c \in get_labeled_clips(session_id)}) :
             result' = Call("get_labeled_clips", <<session_id>>, <<o>>)
    /\ fetched' = <<>>
    /\ UNCHANGED <<coreVars, labelingsession, audioclip, directories, files,
                   uuid, deleted, cascaded>>

\* update_clip_label that leaves labeled_at alone
set_user_label_only(clip, labels, now) == [clip EXCEPT !.user_label = <<labels>>]

\* lines 334-335
set_user_label(clip, labels, now) ==
    [clip EXCEPT !.user_label = <<labels>>, !.labeled_at = <<now>>]

\* lines 355-356
clear_user_label(clip) ==
    [clip EXCEPT !.user_label = None, !.labeled_at = None]

\* lines 320-341
UpdateClipLabel ==
    /\ variant = "db"
    /\ \E session_id \in SessionIds, clip_id \in ClipIds, labels \in LabelLists,
          now \in Clock :
          LET clip == select_clip(session_id, clip_id)
          IN  IF clip = None
              THEN /\ result' = Call("update_clip_label",
                                     <<session_id, clip_id, labels>>, None)
                   /\ fetched' = <<>>
                   /\ UNCHANGED <<labelingsession, audioclip, directories, files,
                                  uuid, deleted, cascaded>>
              ELSE /\ audioclip' = (audioclip \ {clip[1]})
                                       \cup {set_user_label(clip[1], labels, now)}
                   /\ fetched' = <<>>
                   /\ result' = Call("update_clip_label",
                                     <<session_id, clip_id, labels>>,
                                     <<set_user_label(clip[1], labels, now)>>)
                   /\ UNCHANGED <<labelingsession, directories, files, uuid,
                                  deleted, cascaded>>
    /\ UNCHANGED coreVars

\* lines 343-362
RemoveClipLabel ==
    /\ variant = "db"
    /\ \E session_id \in SessionIds, clip_id \in ClipIds :
          LET clip == select_clip(session_id, clip_id)
          IN  IF clip = None
              THEN /\ result' = Call("remove_clip_label",
                                     <<session_id, clip_id>>, None)
                   /\ fetched' = <<>>
                   /\ UNCHANGED <<labelingsession, audioclip, directories, files,
                                  uuid, deleted, cascaded>>
              ELSE /\ audioclip' = (audioclip \ {clip[1]})
                                       \cup {clear_user_label(clip[1])}
                   /\ fetched' = <<>>
                   /\ result' = Call("remove_clip_label",
                                     <<session_id, clip_id>>,
                                     <<clear_user_label(clip[1])>>)
                   /\ UNCHANGED <<labelingsession, directories, files, uuid,
                                  deleted, cascaded>>
    /\ UNCHANGED coreVars

InitDb ==
    /\ variant = "db"
    /\ DbIdle
    /\ MemIdle
    /\ StoreIdle
    /\ result = <<>>
    /\ BuildIdle
    /\ time_sig = TimeSignature(4, 4)
    /\ grid = <<>>
    /\ note_predictions = DataFrame({}, <<>>)
    /\ tolerance = 0
    /\ pc = "call"
    /\ exc = ""
    /\ i = 0
    /\ matched_durations = <<>>
    /\ matched_notes = <<>>
    /\ stride = <<>>
    /\ collected = <<>>
    /\ onset_times = <<>>
    /\ note_offset = <<>>
    /\ synced_grid = <<>>
    /\ onset_idx = 0
    /\ diff_log = 0
    /\ synced_obj = "none"

NextDb ==
    \/ CreateSession \/ GetSession \/ DeleteSession \/ SaveClipsFromDataframe
    \/ SaveClips \/ GetClips \/ GetClip \/ DeleteClip \/ CountLabeledClips
    \/ GetLabeledClips \/ UpdateClipLabel \/ RemoveClipLabel

SpecDb == InitDb /\ [][NextDb]_vars

(***************************************************************************)
(* api/services/memory_service.py: InMemoryService                         *)
(*                                                                         *)
(* A track is its content and its size in bytes; a dict is a function on   *)
(* its keys.                                                               *)
(***************************************************************************)
nonMemVars == <<grid, note_predictions, time_sig, tolerance, pc, exc, i,
                matchVars, syncVars, variant, buildVars, storeVars,
                labelingsession, audioclip, files, uuid, deleted, fetched,
                cascaded>>

MemSessions == 1..MaxMemSessions

TrackData == {"a", "b"}

Tracks == [data : TrackData, nbytes : 1..MaxTrackBytes]

\* del d[k]
DictDel(d, k) == [x \in DOMAIN d \ {k} |-> d[x]]

\* d[k] = v
DictSet(d, k, v) == [x \in DOMAIN d \cup {k} |-> IF x = k THEN v ELSE d[x]]

\* lines 35-37: sum(track.nbytes for track in ....values())
current_memory(tracks) ==
    LET ids == SortedSeq(DOMAIN tracks)
    IN  SumSeq([k \in 1..Len(ids) |-> tracks[ids[k]].nbytes])

\* lines 39-48: the while loop of _check_memory_usage
RECURSIVE check_memory_usage(_, _)
check_memory_usage(tracks, stack) ==
    IF current_memory(tracks) > max_memory /\ stack # <<>>
    THEN LET oldest_id == Head(stack)
         IN  check_memory_usage(
                 IF oldest_id \in DOMAIN tracks
                 THEN DictDel(tracks, oldest_id) ELSE tracks,
                 Tail(stack))
    ELSE [tracks |-> tracks, stack |-> stack]

\* lines 19-31; np.save needs the session directory
SetSessionTrack ==
    /\ variant = "mem"
    /\ Len(id_stack) < MaxStack
    /\ \E session_id \in MemSessions, track \in Tracks :
          IF session_id \notin DOMAIN track_files
                 /\ session_id \notin directories
          THEN /\ result' = Raised("set_session_track", <<session_id, track>>,
                                   "FileNotFoundError")
               /\ UNCHANGED memVars
          ELSE \E checked \in {check_memory_usage(
                                   DictSet(in_mem_session_tracks, session_id,
                                           track),
                                   Append(id_stack, session_id))} :
               /\ track_files' = IF session_id \notin DOMAIN track_files
                                 THEN DictSet(track_files, session_id, track)
                                 ELSE track_files
               /\ in_mem_session_tracks' = checked.tracks
               /\ id_stack' = checked.stack
               /\ last_set' = DictSet(last_set, session_id, track)
               /\ result' = Call("set_session_track", <<session_id, track>>,
                                 None)
               /\ UNCHANGED max_memory
    /\ UNCHANGED <<nonMemVars, directories>>

\* lines 50-59
GetSessionTrack ==
    /\ variant = "mem"
    /\ \E session_id \in MemSessions :
          IF session_id \notin DOMAIN in_mem_session_tracks
          THEN IF session_id \in DOMAIN track_files
               THEN /\ in_mem_session_tracks' =
                           DictSet(in_mem_session_tracks, session_id,
                                   track_files[session_id])
                    /\ result' = Call("get_session_track", <<session_id>>,
                                      <<track_files[session_id]>>)
               ELSE /\ result' = Raised("get_session_track", <<session_id>>,
                                        "FileNotFoundError")
                    /\ UNCHANGED in_mem_session_tracks
          ELSE /\ result' = Call("get_session_track", <<session_id>>,
                                 <<in_mem_session_tracks[session_id]>>)
               /\ UNCHANGED in_mem_session_tracks
    /\ UNCHANGED <<nonMemVars, directories, id_stack, max_memory, track_files,
                   last_set>>

\* lines 61-64
DeleteSessionTrack ==
    /\ variant = "mem"
    /\ \E session_id \in MemSessions :
          /\ in_mem_session_tracks' =
                 IF session_id \in DOMAIN in_mem_session_tracks
                 THEN DictDel(in_mem_session_tracks, session_id)
                 ELSE in_mem_session_tracks
          /\ result' = Call("delete_session_track", <<session_id>>, None)
    /\ UNCHANGED <<nonMemVars, directories, id_stack, max_memory, track_files,
                   last_set>>

\* InMemoryService(max_memory): no track fits that is larger than the budget
InitMem ==
    /\ variant = "mem"
    /\ max_memory \in MaxTrackBytes..MaxMemory
    /\ directories \in SUBSET MemSessions
    /\ in_mem_session_tracks = <<>>
    /\ id_stack = <<>>
    /\ track_files = <<>>
    /\ last_set = <<>>
    /\ labelingsession = {}
    /\ audioclip = {}
    /\ files = {}
    /\ uuid = 0
    /\ deleted = {}
    /\ fetched = <<>>
    /\ cascaded = {}
    /\ StoreIdle
    /\ result = <<>>
    /\ BuildIdle
    /\ time_sig = TimeSignature(4, 4)
    /\ grid = <<>>
    /\ note_predictions = DataFrame({}, <<>>)
    /\ tolerance = 0
    /\ pc = "call"
    /\ exc = ""
    /\ i = 0
    /\ matched_durations = <<>>
    /\ matched_notes = <<>>
    /\ stride = <<>>
    /\ collected = <<>>
    /\ onset_times = <<>>
    /\ note_offset = <<>>
    /\ synced_grid = <<>>
    /\ onset_idx = 0
    /\ diff_log = 0
    /\ synced_obj = "none"

NextMem == SetSessionTrack \/ GetSessionTrack \/ DeleteSessionTrack

SpecMem == InitMem /\ [][NextMem]_vars

(***************************************************************************)
(* SessionStore and the session and clip routes (services/session_service, *)
(* routers/sessions.py, routers/clips.py)                                  *)
(***************************************************************************)

nonStoreVars == <<grid, note_predictions, time_sig, tolerance, pc, exc, i,
                  matchVars, syncVars, variant, buildVars, memVars,
                  labelingsession, audioclip, directories, files, deleted,
                  fetched, cascaded>>

\* the ids a request can carry: the uuid4 values drawn so far or to come,
\* and 0, an id no session ever had
StoreSessions == 0..MaxStoreSessions
StorePages == 1..2
StorePageSizes == 1..2
LabeledFilters == {None, <<TRUE>>, <<FALSE>>}
\* the uploads: no filename, a text file, a wav file
Filenames == {[filename |-> "", suffix |-> ""],
              [filename |-> "song.txt", suffix |-> ".txt"],
              [filename |-> "song.wav", suffix |-> ".wav"]}
allowed_extensions == {".wav", ".mp3", ".flac", ".ogg", ".m4a"}

\* LabelingSession(session_id, filename): processed defaults to False
LabelingSession(session_id) ==
    [session_id |-> session_id, total_clips |-> 0, processed |-> FALSE]

\* LabelingSessionData(temp_dir): no clips, no file_path
LabelingSessionData ==
    [clips |-> {}, file_path |-> None]

\* update_model: setattr for the keys the model has; an unknown id changes
\* nothing
update_model(container, model_id, updates) ==
    IF model_id \notin DOMAIN container
    THEN container
    ELSE [container EXCEPT ![model_id] =
             [key \in DOMAIN @ |->
                 IF key \in DOMAIN updates THEN updates[key] ELSE @[key]]]

\* the clips of a processed track: clip k starts at time k, none is labeled
dataframe_to_audio_clips(n) ==
    {[clip_id |-> k, start_time |-> k, user_label |-> None] : k \in 1..n}

\* clips.sort(key=start_time): the clips in the order of their start times
RECURSIVE sort_by_start_time(_)
sort_by_start_time(clips) ==
    IF clips = {}
    THEN <<>>
    ELSE LET first == CHOOSE c \in clips :
                          \A d \in clips : c.start_time <= d.start_time
         IN  <<first>> \o sort_by_start_time(clips \ {first})

\* clips[start_idx:end_idx]
slice(clips, start_idx, end_idx) ==
    [k \in 1..(IF Len(clips) < end_idx THEN
                   (IF Len(clips) > start_idx THEN Len(clips) - start_idx
                    ELSE 0)
               ELSE end_idx - start_idx) |-> clips[start_idx + k]]

\* no gate at all
always_listed(session) == FALSE

\* the processing gate of the get_clips route
not_processed(session) == ~session.processed

\* routers/clips.py get_clips
StoreGetClips ==
    /\ variant = "store"
    /\ \E session_id \in StoreSessions, page \in StorePages,
          page_size \in StorePageSizes, labeled \in LabeledFilters :
          LET params == <<session_id, page, page_size, labeled>>
          IN
          IF session_id \notin DOMAIN sessions
          THEN result' = Raised("get_clips", params,
                                "404 Session not found")
          ELSE IF not_processed(sessions[session_id])
          THEN result' = Raised("get_clips", params,
                   "400 Session audio has not been processed yet")
          ELSE IF session_id \notin DOMAIN session_data
          THEN result' = Raised("get_clips", params,
                                "404 No clips found for session")
          ELSE
          LET all == session_data[session_id].clips
              kept == IF labeled = None
                      THEN all
                      ELSE {c \in all :
                               (c.user_label # None) = labeled[1]}
              clips == sort_by_start_time(kept)
              total == Len(clips)
              start_idx == (page - 1) * page_size
              end_idx == start_idx + page_size
          IN  result' = Call("get_clips", params,
                             [clips |-> slice(clips, start_idx, end_idx),
                              total |-> total,
                              page |-> page,
                              page_size |-> page_size,
                              has_next |-> end_idx < total])
    /\ UNCHANGED <<nonStoreVars, storeVars, uuid>>

\* routers/sessions.py create_session, up to the first await: the filename
\* checks and SessionStore.create_session
StoreCreateSession ==
    /\ variant = "store"
    /\ \E file \in Filenames :
          IF file.filename = ""
          THEN /\ result' = Raised("create_session", <<file.filename>>,
                                   "400 No filename provided")
               /\ UNCHANGED <<storeVars, uuid>>
          ELSE IF file.suffix \notin allowed_extensions
          THEN /\ result' = Raised("create_session", <<file.filename>>,
                                   "400 Unsupported file format")
               /\ UNCHANGED <<storeVars, uuid>>
          ELSE /\ uuid < MaxStoreSessions
               /\ uuid' = uuid + 1
               /\ sessions' = DictSet(sessions, uuid', LabelingSession(uuid'))
               /\ session_data' = DictSet(session_data, uuid',
                                          LabelingSessionData)
               /\ uploads' = uploads \cup {uuid'}
               /\ result' = <<>>
    /\ UNCHANGED nonStoreVars

\* routers/sessions.py create_session, from the file write on: the write
\* fails (500) or the file path is stored and the session is returned
StoreFinishUpload ==
    /\ variant = "store"
    /\ \E session_id \in uploads, written \in BOOLEAN :
          /\ uploads' = uploads \ {session_id}
          /\ IF written
             THEN /\ session_data' =
                        update_model(session_data, session_id,
                                     [file_path |-> <<session_id>>])
                  /\ result' = Call("create_session", <<>>, session_id)
             ELSE /\ session_data' = session_data
                  /\ result' = Raised("create_session", <<>>,
                                      "500 Failed to create session")
    /\ UNCHANGED <<nonStoreVars, sessions, uuid>>

\* routers/sessions.py get_session
StoreGetSession ==
    /\ variant = "store"
    /\ \E session_id \in StoreSessions :
          IF session_id \notin DOMAIN sessions
          THEN result' = Raised("get_session", <<session_id>>,
                                "404 Session not found")
          ELSE result' = Call("get_session", <<session_id>>,
                              sessions[session_id])
    /\ UNCHANGED <<nonStoreVars, storeVars, uuid>>

\* routers/sessions.py process_session_audio: the pipeline raises, or it
\* yields n clips, which are stored before the session is marked processed
StoreProcessSessionAudio ==
    /\ variant = "store"
    /\ \E session_id \in StoreSessions, raises \in BOOLEAN,
          n \in 0..MaxStoreClips :
          LET params == <<session_id>>
          IN
          IF session_id \notin DOMAIN sessions
          THEN /\ result' = Raised("process_session_audio", params,
                                   "404 Session not found")
               /\ UNCHANGED <<sessions, session_data>>
          ELSE IF \/ session_id \notin DOMAIN session_data
                  \/ session_data[session_id].file_path = None
          THEN /\ result' = Raised("process_session_audio", params,
                              "400 No audio file found for session")
               /\ UNCHANGED <<sessions, session_data>>
          ELSE IF raises
          THEN /\ result' = Raised("process_session_audio", params,
                                   "500 Failed to process audio")
               /\ UNCHANGED <<sessions, session_data>>
          ELSE /\ session_data' =
                     update_model(session_data, session_id,
                                  [clips |-> dataframe_to_audio_clips(n)])
               /\ sessions' =
                     update_model(sessions, session_id,
                                  [total_clips |-> n, processed |-> TRUE])
               /\ result' = Call("process_session_audio", params, n)
    /\ UNCHANGED <<nonStoreVars, uploads, uuid>>

\* routers/sessions.py delete_session with SessionStore.delete_session
StoreDeleteSession ==
    /\ variant = "store"
    /\ \E session_id \in StoreSessions :
          IF session_id \notin DOMAIN sessions
          THEN /\ result' = Raised("delete_session", <<session_id>>,
                                   "404 Session not found")
               /\ UNCHANGED <<sessions, session_data>>
          ELSE /\ sessions' = DictDel(sessions, session_id)
               /\ session_data' = DictDel(session_data, session_id)
               /\ result' = Call("delete_session", <<session_id>>, TRUE)
    /\ UNCHANGED <<nonStoreVars, uploads, uuid>>

\* session_store = SessionStore()
InitStore ==
    /\ variant = "store"
    /\ StoreIdle
    /\ MemIdle
    /\ labelingsession = {}
    /\ audioclip = {}
    /\ directories = {}
    /\ files = {}
    /\ uuid = 0
    /\ deleted = {}
    /\ fetched = <<>>
    /\ cascaded = {}
    /\ result = <<>>
    /\ BuildIdle
    /\ time_sig = TimeSignature(4, 4)
    /\ grid = <<>>
    /\ note_predictions = DataFrame({}, <<>>)
    /\ tolerance = 0
    /\ pc = "call"
    /\ exc = ""
    /\ i = 0
    /\ matched_durations = <<>>
    /\ matched_notes = <<>>
    /\ stride = <<>>
    /\ collected = <<>>
    /\ onset_times = <<>>
    /\ note_offset = <<>>
    /\ synced_grid = <<>>
    /\ onset_idx = 0
    /\ diff_log = 0
    /\ synced_obj = "none"

NextStore ==
    \/ StoreCreateSession
    \/ StoreFinishUpload
    \/ StoreGetSession
    \/ StoreProcessSessionAudio
    \/ StoreDeleteSession
    \/ StoreGetClips

SpecStore == InitStore /\ [][NextStore]_vars

(***************************************************************************)
(* Properties of the matcher (checked under SpecMatch)                     *)
(***************************************************************************)
PeakTimes(notes) == [k \in 1..Len(notes.rows) |-> notes.rows[k].peak_time]

\* C1: in a run with tolerance 0 no onset is collected into the onset set of
\* more than one eighth-note interval.
C1_NoOnsetCollectedTwice ==
    (variant = "match" /\ tolerance = 0)
        => \A k \in DOMAIN collected : collected[k] <= 1

\* C2: with the required columns present and a grid of at least two points
\* the call never ends in an exception raised in mid-computation.
C2_MatchTerminatesNormally ==
    (variant = "match" /\ RequiredColumns \subseteq note_predictions.columns
        /\ Len(grid) >= 2)
        => pc # "raised"

\* C3: the durations of a straight Match sum to one eighth note and those of
\* a tuplet Match to two eighth notes.
C3_DurationsTileInterval ==
    stride # <<>> =>
        /\ SumSeq(stride[1].first_match.durations) = Duration_eighth_note
        /\ SumSeq(stride[1].second_match.durations) = Duration_eighth_note
        /\ stride[1].tuplet_match # <<>> =>
               SumSeq(stride[1].tuplet_match[1].durations)
                   = 2 * Duration_eighth_note

\* C4: more than 4 onsets in one interval never make the straight matcher
\* fail; the onsets are reduced to exactly 4 and the four-note Match is
\* returned.
C4_MoreThanFourDegrades ==
    /\ exc # "KeyError: not found in axis"
    /\ stride # <<>> =>
        /\ Len(stride[1].first_matching_notes.rows) > 4
               => Len(stride[1].first_match.notes) = 4
        /\ Len(stride[1].second_matching_notes.rows) > 4
               => Len(stride[1].second_match.notes) = 4

StraightPair(r) == Match_add(r.first_match, r.second_match)

CombinedCount(r) ==
    Len(r.first_matching_notes.rows) + Len(r.second_matching_notes.rows)

\* C5: a stride whose two intervals hold 2 or 3 onsets together emits the
\* cheaper of the straight pair and the tuplet match; with any other count
\* no tuplet is considered and the straight pair is emitted.
C5_StrideTakesLowerCost ==
    stride # <<>> =>
        LET r == stride[1]
        IN  IF CombinedCount(r) \in {2, 3}
            THEN /\ r.tuplet_match # <<>>
                 /\ r.best_match \in {StraightPair(r), r.tuplet_match[1]}
                 /\ r.best_match.distance <= StraightPair(r).distance
                 /\ r.best_match.distance <= r.tuplet_match[1].distance
            ELSE /\ r.tuplet_match = <<>>
                 /\ r.best_match = StraightPair(r)

C5_TupletChosen ==
    /\ stride # <<>>
    /\ stride[1].tuplet_match # <<>>
    /\ stride[1].tuplet_match[1].distance < StraightPair(stride[1]).distance
    /\ stride[1].best_match = stride[1].tuplet_match[1]

\* three onsets evenly spaced over the two eighth notes of a three-point grid
EvenTripletInput ==
    /\ variant = "match"
    /\ Len(grid) = 3
    /\ grid[2] - grid[1] = grid[3] - grid[2]
    /\ Len(note_predictions.rows) = 3
    /\ note_predictions.rows[1].peak_time = grid[1]
    /\ 3 * (note_predictions.rows[2].peak_time - grid[1])
           = 2 * (grid[2] - grid[1])
    /\ 3 * (note_predictions.rows[3].peak_time - grid[1])
           = 4 * (grid[2] - grid[1])

\* C6: three onsets evenly spaced over two eighth notes come out as the
\* three-eighth-triplet tuplet match with distance 0.
C6_EvenTripletsEmitTuplet ==
    (EvenTripletInput /\ pc = "done") =>
        /\ stride # <<>>
        /\ stride[1].best_match.distance = 0
        /\ matched_durations = <<Duration_eighth_note_triplet,
                                 Duration_eighth_note_triplet,
                                 Duration_eighth_note_triplet>>

\* the rows with lo <= peak_time < hi, in table order
RowsInHalfOpen(lo, hi) ==
    SelectSeq(note_predictions.rows,
              LAMBDA r : lo <= r.peak_time /\ r.peak_time < hi)

\* C7: the onset set of an interval is exactly the rows whose peak time t
\* satisfies start - tolerance <= t < end + tolerance, in table order.
C7_HalfOpenWindow ==
    stride # <<>> =>
        /\ stride[1].first_matching_notes.rows =
               RowsInHalfOpen(stride[1].start_time - tolerance,
                              stride[1].middle_time + tolerance)
        /\ stride[1].second_matching_notes.rows =
               RowsInHalfOpen(stride[1].middle_time - tolerance,
                              stride[1].end_time + tolerance)

\* C8: a single onset at the start grid point of its interval is matched to
\* the plain eighth note with distance 0.
C8_OnsetOnBoundaryIsEighth ==
    stride # <<>> =>
        /\ PeakTimes(stride[1].first_matching_notes) = <<stride[1].start_time>>
               => /\ stride[1].first_match.durations = <<Duration_eighth_note>>
                  /\ stride[1].first_match.distance = 0
        /\ PeakTimes(stride[1].second_matching_notes) = <<stride[1].middle_time>>
               => /\ stride[1].second_match.durations = <<Duration_eighth_note>>
                  /\ stride[1].second_match.distance = 0

C8_SingleOnsetOnBoundary ==
    /\ stride # <<>>
    /\ PeakTimes(stride[1].first_matching_notes) = <<stride[1].start_time>>
    /\ stride[1].first_match.notes # <<REST>>
    /\ time_sig.note_value = 8
    /\ stride[1].middle_time - stride[1].start_time
           # stride[1].end_time - stride[1].middle_time

(***************************************************************************)
(* Properties of the grid synchronisers (checked under SpecSync)           *)
(***************************************************************************)
StrictlyIncreasing(s) == \A k \in 1..(Len(s) - 1) : s[k] < s[k + 1]

\* C9: when the onsets are exactly the grid points, the synced grid equals
\* the input grid, point for point and in length.
C9_ExactOnsetsKeepGrid ==
    (variant \in {"grid", "transcriber"} /\ pc = "done" /\ onset_times = grid)
        => synced_grid = grid

C9_ExactOnsetsSynced ==
    /\ variant = "grid"
    /\ pc = "done"
    /\ onset_times = grid
    /\ Len(grid) >= 3

C15_PreconditionsFailUpFront ==
    /\ (variant = "match" /\ pc # "call"
            /\ ~(RequiredColumns \subseteq note_predictions.columns))
           => /\ pc = "raised"
              /\ exc = "AssertionError"
              /\ stride = <<>>
              /\ matched_durations = <<>>
              /\ matched_notes = <<>>
              /\ \A k \in DOMAIN collected : collected[k] = 0
    /\ (variant = "match" /\ RequiredColumns \subseteq note_predictions.columns)
           => exc \notin {"AssertionError", "KeyError: 'hits'"}
    /\ (variant = "sheet" /\ pc # "call")
           => IF Len(matched_durations) # Len(matched_notes)
              THEN pc = "raised" /\ result = <<>>
              ELSE exc # "ValueError"

\* the distance, in 1/Scale ticks, from the only onset of an interval to the
\* start of the interval, where the plain eighth note has its slot
OnsetToStart(notes, start_time) ==
    Abs(Scale * notes.rows[1].peak_time - Scale * start_time)

\* C17: on an exact cost tie the simplest candidate is emitted: the straight
\* pair when the tuplet match has the same distance, and the plain eighth note
\* when it is one of the closest candidates for the single onset of an
\* interval.
C17_TieGoesToSimplest ==
    stride # <<>> =>
        /\ (stride[1].tuplet_match # <<>>
                /\ stride[1].tuplet_match[1].distance
                       = StraightPair(stride[1]).distance)
               => stride[1].best_match = StraightPair(stride[1])
        /\ (Len(stride[1].first_matching_notes.rows) = 1
                /\ stride[1].first_match.distance
                       = OnsetToStart(stride[1].first_matching_notes,
                                      stride[1].start_time))
               => stride[1].first_match.durations = <<Duration_eighth_note>>
        /\ (Len(stride[1].second_matching_notes.rows) = 1
                /\ stride[1].second_match.distance
                       = OnsetToStart(stride[1].second_matching_notes,
                                      stride[1].middle_time))
               => stride[1].second_match.durations = <<Duration_eighth_note>>

(***************************************************************************)
(* Properties of the grid-matching core (checked under SpecCore)           *)
(***************************************************************************)
\* C16: no step of sync_eighth_note_grid_to_onsets, of
\* map_onsets_to_eighth_notes or of match_by_eighth_notes (the drop-to-4
\* reduction included) changes the grid, the onset array or the
\* note_predictions table it was called with, so a second call on them starts
\* from the same inputs.
C16_InputsUnchanged ==
    [][/\ grid' = grid
       /\ onset_times' = onset_times
       /\ note_predictions' = note_predictions]_vars

C16_SyncedGridDiffers ==
    /\ variant = "grid"
    /\ pc = "done"
    /\ synced_obj = "new"
    /\ Len(grid) >= 2
    /\ \E k \in 1..Len(grid) : synced_grid[k] # grid[k]

(***************************************************************************)
(* Properties of the grid builder (checked under SpecBuild)                *)
(***************************************************************************)
PowersOfTwo == {1, 2, 4, 8, 16, 32}

\* measure_start of the state's inputs times note_value * BeatScale, by the
\* closed form drum_start_time - (start_beat - 1) * (8 / n) * eighth_note
ScaledMeasureStart ==
    BeatScale * time_sig.note_value * drum_start_time
        - 32 * (start_beat - 2) * bpm_eighth_note

BuildReturned ==
    /\ variant = "build"
    /\ pc # "call"
    /\ TimeSignature_eighth_note_beat(time_sig, start_beat).exc = ""

\* C11: once eighth_note_beat(start_beat) has returned, the builder fails
\* with an assertion whenever drum_start_time - (eighth_note_beat - 1) *
\* eighth_note is negative (no grid, no clamping to zero); whenever that value
\* is >= 0 the returned grid starts exactly at it and has a constant step of
\* one eighth note.
C11_NegativeStartFails ==
    BuildReturned =>
        IF ScaledMeasureStart < 0
        THEN pc = "raised" /\ exc = "AssertionError" /\ result = <<>>
        ELSE /\ pc = "done"
             /\ result # <<>>
             /\ result[1] # <<>>
             /\ time_sig.note_value * result[1][1] = ScaledMeasureStart
             /\ \A k \in 1..(Len(result[1]) - 1) :
                    result[1][k + 1] - result[1][k]
                        = BeatScale * bpm_eighth_note

C11_StartBeatOvershoots ==
    /\ BuildReturned
    /\ start_beat > 2
    /\ drum_start_time > 0
    /\ ScaledMeasureStart < 0
    /\ pc = "raised"

\* C12 as stated: the built grid has ceil(duration / eighth_note) points, all
\* of them less than the track duration.
C12_LengthIsDurationOverEighth ==
    (variant = "build" /\ pc = "done") =>
        /\ (Len(result[1]) - 1) * bpm_eighth_note < duration
        /\ duration <= Len(result[1]) * bpm_eighth_note
        /\ \A k \in 1..Len(result[1]) : result[1][k] < BeatScale * duration

\* C12 as amended: the built grid has ceil((duration - measure_start) /
\* eighth_note) points, all of them less than the track duration.
C12_LengthFromMeasureStart ==
    (variant = "build" /\ pc = "done") =>
        LET n == time_sig.note_value
            span == BeatScale * n * duration - ScaledMeasureStart
            step == BeatScale * n * bpm_eighth_note
        IN  /\ (Len(result[1]) - 1) * step < span
            /\ span <= Len(result[1]) * step
            /\ \A k \in 1..Len(result[1]) : result[1][k] < BeatScale * duration

C12_LateMeasureStart ==
    /\ variant = "build"
    /\ pc = "done"
    /\ ScaledMeasureStart
           >= BeatScale * time_sig.note_value * bpm_eighth_note
    /\ Len(result[1]) >= 2
    /\ start_beat > 2
    /\ BeatScale * duration - result[1][Len(result[1])]
           = BeatScale * bpm_eighth_note

\* C13 as stated: with a power-of-two note value every call with pos >= 1
\* returns (pos - 1) * (8 / n) + 1, and the returned values increase with pos.
C13_EveryPositionReturns ==
    (variant = "beat" /\ time_sig.note_value \in PowersOfTwo) =>
        /\ \A p \in DOMAIN beat_log :
               p >= 2 =>
                   /\ beat_log[p].exc = ""
                   /\ time_sig.note_value * (beat_log[p].value[1] - BeatScale)
                          = 32 * (p - 2)
        /\ \A p, q \in DOMAIN beat_log :
               (2 <= p /\ p < q) => beat_log[p].value[1] < beat_log[q].value[1]

\* C13 as amended: with a power-of-two note value every call with pos >= 1
\* that returns, returns (pos - 1) * (8 / n) + 1, and the returned values
\* increase with pos; the call returns exactly when that value is at most
\* beats_in_measure * (8 / n).
C13_ReturnedPositions ==
    (variant = "beat" /\ time_sig.note_value \in PowersOfTwo) =>
        /\ \A p \in DOMAIN beat_log :
               p >= 2 =>
                   /\ beat_log[p].exc = ""
                          <=> 32 * (p - 2) + BeatScale * time_sig.note_value
                                  <= 64 * time_sig.beats_in_measure
                   /\ beat_log[p].exc = "" =>
                          time_sig.note_value
                                  * (beat_log[p].value[1] - BeatScale)
                              = 32 * (p - 2)
        /\ \A p, q \in DOMAIN beat_log :
               (2 <= p /\ p < q /\ beat_log[p].exc = "" /\ beat_log[q].exc = "")
                   => beat_log[p].value[1] < beat_log[q].value[1]

C13_ThreePositionsReturned ==
    /\ variant = "beat"
    /\ time_sig.note_value = 16
    /\ Cardinality({p \in DOMAIN beat_log : beat_log[p].exc = ""}) = 3
    /\ \E p \in DOMAIN beat_log : p % 2 = 1 /\ beat_log[p].exc = ""

\* C14: eighth_note_beat fails with a precondition violation exactly when
\* pos < 1, or note_value is not a power of two, or the position lies beyond
\* the measure; every pos with 1 <= pos < beats_in_measure + 1 and a
\* power-of-two note_value is accepted.
C14_RejectsExactlyOutsideMeasure ==
    variant = "beat" =>
        \A p \in DOMAIN beat_log :
            /\ beat_log[p].exc \in {"", "AssertionError"}
            /\ beat_log[p].exc = "AssertionError"
                   <=> \/ p < 2
                       \/ time_sig.note_value \notin PowersOfTwo
                       \/ p >= 2 * (time_sig.beats_in_measure + 1)

(***************************************************************************)
(* Properties of the session service (checked under SpecDb)                *)
(***************************************************************************)
DbCalled(op) == variant = "db" /\ result # <<>> /\ result.op = op

\* C18: once delete_session(id) has returned True, no session row has that
\* id and get_session(id) returns None in every later state; delete_session
\* on an id that has no session returns False and leaves the sessions and
\* the clips as they were.
C18_DeletedSessionStaysGone ==
    [][variant = "db" =>
        /\ \A id \in deleted' : id \notin labelingsession'
        /\ (result'.op = "get_session" /\ result'.params[1] \in deleted)
               => result'.value = None
        /\ (result'.op = "delete_session" /\ result'.value = <<TRUE>>)
               => result'.params[1] \in deleted'
        /\ (result'.op = "delete_session"
                /\ result'.params[1] \notin labelingsession)
               => /\ result'.value = <<FALSE>>
                  /\ labelingsession' = labelingsession
                  /\ audioclip' = audioclip]_vars

\* a deleted session is asked for after another session was created
C18_GetAfterDeleteAndCreate ==
    /\ DbCalled("get_session")
    /\ result.params[1] \in deleted
    /\ \E id \in labelingsession : id > result.params[1]
    /\ result.value = None

ClipRows(table, session_id, clip_id) ==
    {c \in table : c.session_id = session_id /\ c.id = clip_id}

PageIds(page) == {page[1][k] : k \in 1..Len(page[1])}

\* C20: for a session with N clips every page of get_clips carries total = N
\* and min(page_size, max(0, N - (page - 1) * page_size)) clips; the pages
\* 1..ceil(N / page_size) are pairwise disjoint and together hold every clip
\* of the session; a session without clips or an unknown one gives ([], 0).
C20_PagesPartitionTheClips ==
    (variant = "db" /\ fetched # <<>>) =>
        LET N == Cardinality(clips_of(fetched.session_id))
            page_size == fetched.page_size
            pages == fetched.pages
            last == (N + page_size - 1) \div page_size
            rest(p) == N - (p - 1) * page_size
        IN  /\ \A p \in DOMAIN pages :
                   /\ pages[p][2] = N
                   /\ Len(pages[p][1]) =
                          IF rest(p) <= 0 THEN 0
                          ELSE IF rest(p) < page_size THEN rest(p)
                          ELSE page_size
                   /\ N = 0 => pages[p] = <<<<>>, 0>>
            /\ \A p, q \in DOMAIN pages :
                   (p < q /\ q <= last)
                       => PageIds(pages[p]) \cap PageIds(pages[q]) = {}
            /\ (1..last) \subseteq DOMAIN pages
                   => UNION {PageIds(pages[p]) : p \in 1..last}
                          = clips_of(fetched.session_id)

\* the counts and the total alone
PageSizesAndTotals ==
    (variant = "db" /\ fetched # <<>>) =>
        LET N == Cardinality(clips_of(fetched.session_id))
            rest(p) == N - (p - 1) * fetched.page_size
        IN  \A p \in DOMAIN fetched.pages :
                /\ fetched.pages[p][2] = N
                /\ Len(fetched.pages[p][1]) =
                       IF rest(p) <= 0 THEN 0
                       ELSE IF rest(p) < fetched.page_size THEN rest(p)
                       ELSE fetched.page_size

(***************************************************************************)
(* Further properties of the synchroniser (checked under SpecSync)         *)
(***************************************************************************)
\* C22: sync_eighth_note_grid_to_onsets never moves the first grid point:
\* for a raw grid that starts at the measure start, at or before the first
\* onset, the returned synced_grid[0] equals grid[0].
C22_FirstPointStays ==
    (variant = "grid" /\ pc = "done" /\ onset_times # <<>>
        /\ grid[1] <= onset_times[1])
        => synced_grid[1] = grid[1]

(***************************************************************************)
(* Further properties of the matcher (checked under SpecMatch)             *)
(***************************************************************************)
\* the candidates for n notes in [start_time, end_time)
StraightTable(start_time, end_time, n) ==
    EighthNoteSubdivisions_get_possible_subdivisions(
        EighthNoteSubdivisions(start_time, end_time, time_sig))[n]

\* sum over k of |predicted_time[k] - observed_time[k]|, in 1/Scale ticks
SlotCost(notes, candidate) ==
    SumSeq([k \in 1..Len(notes.rows) |->
               IF candidate.times[k] >= Scale * notes.rows[k].peak_time
               THEN candidate.times[k] - Scale * notes.rows[k].peak_time
               ELSE Scale * notes.rows[k].peak_time - candidate.times[k]])

IsCheapestCandidate(match, notes, table) ==
    /\ \E c \in 1..Len(table) :
           /\ match.durations = table[c].durations
           /\ match.distance = SlotCost(notes, table[c])
    /\ \A c \in 1..Len(table) : match.distance <= SlotCost(notes, table[c])

\* C23: for an interval with 1 to 4 onsets the straight match is a candidate
\* of the table for that many notes, its cost (the k-th slot paired with the
\* k-th onset) is the least of the table, and Match.distance is that cost.
C23_StraightMatchIsCheapest ==
    stride # <<>> =>
        LET r == stride[1]
        IN  /\ Len(r.first_matching_notes.rows) \in 1..4 =>
                   IsCheapestCandidate(
                       r.first_match, r.first_matching_notes,
                       StraightTable(r.start_time, r.middle_time,
                                     Len(r.first_matching_notes.rows)))
            /\ Len(r.second_matching_notes.rows) \in 1..4 =>
                   IsCheapestCandidate(
                       r.second_match, r.second_matching_notes,
                       StraightTable(r.middle_time, r.end_time,
                                     Len(r.second_matching_notes.rows)))

\* two onsets in the first interval, matched at a cost above zero
C23_TwoOnsetsOffTheSlots ==
    /\ stride # <<>>
    /\ Len(stride[1].first_matching_notes.rows) = 2
    /\ stride[1].first_match.distance > 0
    /\ \E c \in 1..6 :
           SlotCost(stride[1].first_matching_notes,
                    StraightTable(stride[1].start_time, stride[1].middle_time, 2)[c])
               > stride[1].first_match.distance

SameLength(match) == Len(match.durations) = Len(match.notes)

\* C30: every Match of a stride (the two straight matches, the tuplet match,
\* the straight pair and the emitted match) has as many durations as notes;
\* the two lists of match_by_eighth_notes have equal length, and the strict
\* pairing of construct_sheet does not fail on the returned lists.
C30_DurationsPairWithNotes ==
    variant = "match" =>
        /\ Len(matched_durations) = Len(matched_notes)
        /\ stride # <<>> =>
               /\ SameLength(stride[1].first_match)
               /\ SameLength(stride[1].second_match)
               /\ SameLength(StraightPair(stride[1]))
               /\ SameLength(stride[1].best_match)
               /\ stride[1].tuplet_match # <<>>
                      => SameLength(stride[1].tuplet_match[1])
        /\ pc = "done" =>
               append_notes(<<>>, matched_durations, matched_notes).exc
                   # "ValueError"

\* a returned transcription that holds a rest and an emitted tuplet
C30_RestAndTupletReturned ==
    /\ variant = "match"
    /\ pc = "done"
    /\ stride # <<>>
    /\ stride[1].tuplet_match # <<>>
    /\ stride[1].best_match = stride[1].tuplet_match[1]
    /\ \E k \in 1..Len(matched_notes) : matched_notes[k] = REST
    /\ Len(matched_notes) >= 3

SlotsWithin(table, lo, hi) ==
    \A c \in 1..Len(table) : \A k \in 1..Len(table[c].times) :
        lo <= table[c].times[k] /\ table[c].times[k] < hi

\* C29: the local tempo of an interval round-trips: the eighth note of
\* BPM.from_eighth_note(end - start, time_sig) is end - start again, every
\* slot of every straight candidate lies in [start, end) and every tuplet
\* slot in the span of the two eighth notes.
C29_LocalTempoRoundTrips ==
    stride # <<>> =>
        LET r == stride[1]
            straight == EighthNoteSubdivisions(r.start_time, r.middle_time,
                                               time_sig)
            tuplet == EighthNoteTupletSubdivisions(r.start_time, r.end_time,
                                                   time_sig)
        IN  /\ BPM_eighth_note(straight.bpm)
                   = Scale * (r.middle_time - r.start_time)
            /\ 2 * BPM_eighth_note(tuplet.bpm)
                   = Scale * (r.end_time - r.start_time)
            /\ \A n \in 1..4 :
                   SlotsWithin(
                       EighthNoteSubdivisions_get_possible_subdivisions(straight)[n],
                       Scale * r.start_time, Scale * r.middle_time)
            /\ \A n \in 2..3 :
                   SlotsWithin(
                       EighthNoteTupletSubdivisions_get_possible_subdivisions(tuplet)[n],
                       Scale * r.start_time, Scale * r.end_time)

\* the same for simple quadruple time alone
RoundTripInFourFour ==
    time_sig.note_value = 4 => C29_LocalTempoRoundTrips

C27_CountMatchesLabeledList ==
    (variant = "db" /\ files = {}) =>
        \A session_id \in SessionIds :
            count_labeled_clips(session_id)
                = Cardinality(get_labeled_clips(session_id))

\* C28: when delete_session(id) has returned True no clip row has that
\* session id and the clips of the other sessions are as they were; from
\* then on get_clips(id) returns ([], 0) and get_clip(id, c) returns None.
C28_DeleteCascadesToClips ==
    [][variant = "db" =>
        /\ \A id \in deleted' : \A c \in audioclip' : c.session_id # id
        /\ (result'.op = "delete_session" /\ result'.value = <<TRUE>>) =>
               /\ result'.params[1] \in deleted'
               /\ {c \in audioclip' : c.session_id # result'.params[1]}
                      = {c \in audioclip : c.session_id # result'.params[1]}
        /\ (result'.op = "get_clips" /\ result'.params[1] \in deleted)
               => result'.value = << <<>>, 0 >>
        /\ (result'.op = "get_clip" /\ result'.params[1] \in deleted)
               => result'.value = None]_vars

\* a clip that went with its session is asked for
C28_GetClipOfDeletedSession ==
    /\ DbCalled("get_clip")
    /\ result.params[1] \in deleted
    /\ result.params[2] \in cascaded
    /\ result.value = None

(***************************************************************************)
(* Properties of the in-memory service (checked under SpecMem)             *)
(***************************************************************************)
\* C24: after every operation of InMemoryService the tracks held in memory
\* take up at most max_memory bytes.
C24_MemoryWithinBudget ==
    variant = "mem" => current_memory(in_mem_session_tracks) <= max_memory

\* C25: get_session_track(id) returns the track most recently passed to
\* set_session_track(id, .), whether it is still in memory or was evicted or
\* deleted and is read back from disk.
C25_GetReturnsLatestSet ==
    (variant = "mem" /\ result # <<>> /\ result.op = "get_session_track"
        /\ result.params[1] \in DOMAIN last_set)
        => /\ result.exc = ""
           /\ result.value = <<last_set[result.params[1]]>>

\* C21: listing clips is gated on processing.  get_clips on a session that
\* exists and is not processed answers 400 'Session audio has not been
\* processed yet' and returns no clips; a session turns processed only in a
\* process_session_audio call on it that returns; a process_session_audio
\* call that raises leaves every session as it was; and a processed session
\* that is still there after a step is still processed.
IsProcessed(store, session_id) ==
    session_id \in DOMAIN store /\ store[session_id].processed

====
